---- MODULE Spec2Model ----
(***************************************************************************)
(* Model of server/main.py: the /evaluate handler and its four stages,     *)
(* build_symbolic_matrix, tokenize, to_rpn and eval_rpn.                   *)
(*                                                                         *)
(* A Python str is a sequence of one-character strings, a list is a        *)
(* sequence, a dict a function.  Positions are 1-based here and 0-based in *)
(* the source.  A raised exception is a non-empty message (a sequence of   *)
(* message pieces); the empty sequence means nothing was raised.           *)
(* Every variable is a function of the request, one entry per request      *)
(* being handled: all of them are locals of one call of evaluate.          *)
(***************************************************************************)
EXTENDS Integers, Sequences, FiniteSets, TLC

VARIABLES
    req,            \* the EvalRequest: matrices, expression, simplify_result
    pc,             \* where the handler is: build, tokenize, to_rpn, drain,
                    \* eval_rpn, finish, done
    m_idx,          \* evaluate: position of m in req.matrices
    matrices_map,   \* evaluate: name -> Matrix
    i,              \* tokenize: scan position in expr
    raw_tokens,     \* tokenize: first-pass tokens
    tokens,         \* tokenize: returned tokens, the input of to_rpn
    t_idx,          \* to_rpn: position of t in tokens
    out,            \* to_rpn: output list
    ops,            \* to_rpn: operator stack
    rpn,            \* evaluate: the postfix list handed to eval_rpn
    r_idx,          \* eval_rpn: position of t in rpn
    stack,          \* eval_rpn: value stack of (kind, value)
    resp            \* the outcome: EvalResponse or HTTPException

vars == <<req, pc, m_idx, matrices_map, i, raw_tokens, tokens, t_idx, out,
          ops, rpn, r_idx, stack, resp>>

buildVars == <<m_idx, matrices_map>>
lexVars == <<i, raw_tokens, tokens>>
rpnVars == <<t_idx, out, ops>>
evalVars == <<rpn, r_idx, stack>>

Reqs == DOMAIN pc

-----------------------------------------------------------------------------
(* Characters and strings                                                  *)

UpperCase == <<"A", "B", "C", "D", "E", "F", "G", "H", "I", "J", "K", "L", "M",
               "N", "O", "P", "Q", "R", "S", "T", "U", "V", "W", "X", "Y", "Z">>
LowerCase == <<"a", "b", "c", "d", "e", "f", "g", "h", "i", "j", "k", "l", "m",
               "n", "o", "p", "q", "r", "s", "t", "u", "v", "w", "x", "y", "z">>

Range(s) == {s[k] : k \in DOMAIN s}

letters == Range(UpperCase) \cup Range(LowerCase)
opsChars == {"+", "-", "*", "/", "(", ")"}
digits == {"0", "1", "2", "3", "4", "5", "6", "7", "8", "9"}

\* str.isspace() of one character (the ASCII whitespace)
isspace(ch) == ch \in {" ", "\t", "\n", "\r", "\f"}

\* str.upper(), character by character
UpperCh(ch) ==
    IF \E k \in DOMAIN LowerCase : LowerCase[k] = ch
    THEN UpperCase[CHOOSE k \in DOMAIN LowerCase : LowerCase[k] = ch]
    ELSE ch

upper(s) == [k \in DOMAIN s |-> UpperCh(s[k])]

\* str.strip(): leading and trailing whitespace removed
RECURSIVE lstrip(_)
lstrip(s) ==
    IF s # <<>> /\ isspace(Head(s)) THEN lstrip(Tail(s)) ELSE s

RECURSIVE rstrip(_)
rstrip(s) ==
    IF s # <<>> /\ isspace(s[Len(s)])
    THEN rstrip(SubSeq(s, 1, Len(s) - 1))
    ELSE s

strip(s) == rstrip(lstrip(s))

\* a token of tokenize, an item of to_rpn: {"type": ..., "value": ...}
Tok(type, value) == [type |-> type, value |-> value]

NoError == <<>>

-----------------------------------------------------------------------------
(* tokenize, first pass                                                    *)

\* (mutant: dots are not counted)
RECURSIVE NumberEndAnyDots(_, _, _)
NumberEndAnyDots(expr, j, dot_count) ==
    IF j <= Len(expr) /\ (expr[j] \in digits \/ expr[j] = ".")
    THEN NumberEndAnyDots(expr, j + 1, dot_count)
    ELSE j

\* The inner while loop of a number: the position after the run of digits
\* and dots that starts at j, or 0 when a second dot raises.
RECURSIVE NumberEnd(_, _, _)
NumberEnd(expr, j, dot_count) ==
    IF j <= Len(expr) /\ (expr[j] \in digits \/ expr[j] = ".")
    THEN IF expr[j] = "."
         THEN IF dot_count + 1 > 1
              THEN 0
              ELSE NumberEnd(expr, j + 1, dot_count + 1)
         ELSE NumberEnd(expr, j + 1, dot_count)
    ELSE j

\* The inner while loop of a word: the position after the run of letters.
RECURSIVE WordEnd(_, _)
WordEnd(expr, j) ==
    IF j <= Len(expr) /\ expr[j] \in letters
    THEN WordEnd(expr, j + 1)
    ELSE j

\* A number starts at a digit, or at a dot that a digit follows.
StartsNumber(expr, p) ==
    \/ expr[p] \in digits
    \/ expr[p] = "." /\ p + 1 <= Len(expr) /\ expr[p + 1] \in digits

\* One iteration of the scanning loop at position p with the raw tokens so
\* far: the next position, the raw tokens, and what was raised.
ScanStep(expr, p, raw) ==
    LET ch == expr[p] IN
    IF isspace(ch)
    THEN [i |-> p + 1, raw_tokens |-> raw, err |-> NoError]
    ELSE IF ch \in opsChars
    THEN [i |-> p + 1, raw_tokens |-> Append(raw, Tok(ch, <<ch>>)),
          err |-> NoError]
    ELSE IF StartsNumber(expr, p)
    THEN LET j == NumberEnd(expr, p, 0) IN
         IF j = 0
         THEN [i |-> p, raw_tokens |-> raw,
               err |-> <<"Invalid number format">>]
         ELSE [i |-> j,
               raw_tokens |-> Append(raw, Tok("NUMBER", SubSeq(expr, p, j - 1))),
               err |-> NoError]
    ELSE IF ch \in letters
    THEN LET j == WordEnd(expr, p) IN
         [i |-> j,
          raw_tokens |-> Append(raw, Tok("WORD", upper(SubSeq(expr, p, j - 1)))),
          err |-> NoError]
    ELSE [i |-> p, raw_tokens |-> raw,
          err |-> <<"Unexpected character: ", ch>>]

-----------------------------------------------------------------------------
(* tokenize, second pass                                                   *)

\* (mutant: a "*" also goes between a word and an opening parenthesis)
insert_mult_after_word(prev, curr) ==
    IF prev.type = "NUMBER"
    THEN curr.type \in {"WORD", "("}
    ELSE IF prev.type = ")"
    THEN curr.type \in {"WORD", "(", "NUMBER"}
    ELSE prev.type = "WORD" /\ curr.type = "("

\* The rule table: whether a "*" goes between prev and curr.
insert_mult(prev, curr) ==
    IF prev.type = "NUMBER"
    THEN curr.type \in {"WORD", "("}
    ELSE IF prev.type = ")"
    THEN curr.type \in {"WORD", "(", "NUMBER"}
    ELSE FALSE

\* The for loop over k = 1 .. len(raw_tokens) - 1 (0-based), from position k
\* (1-based) on, appending to toks.
RECURSIVE InsertLoop(_, _, _)
InsertLoop(raw, k, toks) ==
    IF k > Len(raw)
    THEN toks
    ELSE InsertLoop(raw, k + 1,
            IF insert_mult(raw[k - 1], raw[k])
            THEN Append(Append(toks, Tok("*", <<"*">>)), raw[k])
            ELSE Append(toks, raw[k]))

SecondPass(raw) ==
    IF raw = <<>> THEN <<>> ELSE InsertLoop(raw, 2, <<raw[1]>>)

-----------------------------------------------------------------------------
(* to_rpn                                                                  *)

prec == [op \in {"+", "-", "*", "/"} |-> IF op \in {"+", "-"} THEN 1 ELSE 2]
\* (mutant: T is not a keyword)
funcsWithoutT == {<<"I", "N", "V">>, <<"D", "E", "T">>,
                  <<"T", "R", "A", "C", "E">>, <<"R", "A", "N", "K">>,
                  <<"R", "R", "E", "F">>}

funcs == {<<"T">>, <<"I", "N", "V">>, <<"D", "E", "T">>,
          <<"T", "R", "A", "C", "E">>, <<"R", "A", "N", "K">>,
          <<"R", "R", "E", "F">>}

\* (mutant: only * and / are operators)
IsBinOpTimesOnly(tt) == tt \in {"*", "/"}

\* tt in "+-*/" for a token type: the types tokenize gives that are
\* substrings of "+-*/" are the four operators.
IsBinOp(tt) == tt \in {"+", "-", "*", "/"}

Top(s) == s[Len(s)]
Pop(s) == SubSeq(s, 1, Len(s) - 1)

\* while ops and ops[-1]["type"] != "(": out.append(ops.pop())
\* (mutant: the operators above the "(" are dropped)
RECURSIVE PopToParenDrops(_, _)
PopToParenDrops(o, s) ==
    IF s # <<>> /\ Top(s).type # "("
    THEN PopToParenDrops(o, Pop(s))
    ELSE [out |-> o, ops |-> s]

RECURSIVE PopToParen(_, _)
PopToParen(o, s) ==
    IF s # <<>> /\ Top(s).type # "("
    THEN PopToParen(Append(o, Top(s)), Pop(s))
    ELSE [out |-> o, ops |-> s]

\* (mutant: ties do not pop, so equal precedence groups to the right)
PopsTopStrict(tt, top) == IsBinOp(top.type) /\ prec[tt] < prec[top.type]

\* (mutant: a FUNC on top is popped by any operator)
PopsTopOrFunc(tt, top) ==
    top.type = "FUNC" \/ (IsBinOp(top.type) /\ prec[tt] <= prec[top.type])

\* The pop condition of an incoming operator tt against the stack top.
PopsTop(tt, top) == IsBinOp(top.type) /\ prec[tt] <= prec[top.type]

\* while ops and ops[-1]["type"] in "+-*/" and prec[tt] <= prec[...]:
\*     out.append(ops.pop())
RECURSIVE PopHigher(_, _, _)
PopHigher(tt, o, s) ==
    IF s # <<>> /\ PopsTop(tt, Top(s))
    THEN PopHigher(tt, Append(o, Top(s)), Pop(s))
    ELSE [out |-> o, ops |-> s]

\* (mutant: a FUNC under the "(" stays on the stack)
CloseParenKeepsFunc(o, s) ==
    LET p == PopToParen(o, s) IN
    IF p.ops = <<>>
    THEN [out |-> p.out, ops |-> p.ops, err |-> <<"Mismatched parentheses">>]
    ELSE [out |-> p.out, ops |-> Pop(p.ops), err |-> NoError]

\* The closing parenthesis: pop to the "(", discard it, and pop a FUNC
\* that is under it.
CloseParen(o, s) ==
    LET p == PopToParen(o, s) IN
    IF p.ops = <<>>
    THEN [out |-> p.out, ops |-> p.ops, err |-> <<"Mismatched parentheses">>]
    ELSE LET s2 == Pop(p.ops) IN
         IF s2 # <<>> /\ Top(s2).type = "FUNC"
         THEN [out |-> Append(p.out, Top(s2)), ops |-> Pop(s2), err |-> NoError]
         ELSE [out |-> p.out, ops |-> s2, err |-> NoError]

\* One iteration of "for t in tokens".
RpnStep(t, o, s) ==
    LET tt == t.type IN
    IF tt = "WORD"
    THEN IF t.value \in funcs
         THEN [out |-> o, ops |-> Append(s, Tok("FUNC", t.value)),
               err |-> NoError]
         ELSE [out |-> Append(o, Tok("VAR", t.value)), ops |-> s,
               err |-> NoError]
    ELSE IF tt = "NUMBER"
    THEN [out |-> Append(o, Tok("NUMBER", t.value)), ops |-> s, err |-> NoError]
    ELSE IF tt = "("
    THEN [out |-> o, ops |-> Append(s, t), err |-> NoError]
    ELSE IF tt = ")"
    THEN CloseParen(o, s)
    ELSE IF IsBinOp(tt)
    THEN LET p == PopHigher(tt, o, s) IN
         [out |-> p.out, ops |-> Append(p.ops, t), err |-> NoError]
    ELSE [out |-> o, ops |-> s, err |-> <<"Unknown token">>]

\* (mutant: a leftover "(" is drained like an operator)
RECURSIVE DrainAll(_, _)
DrainAll(o, s) ==
    IF s = <<>>
    THEN [out |-> o, ops |-> s, err |-> NoError]
    ELSE DrainAll(Append(o, Top(s)), Pop(s))

\* The final "while ops" loop.
RECURSIVE Drain(_, _)
Drain(o, s) ==
    IF s = <<>>
    THEN [out |-> o, ops |-> s, err |-> NoError]
    ELSE IF Top(s).type = "("
    THEN [out |-> o, ops |-> s, err |-> <<"Mismatched parentheses">>]
    ELSE Drain(Append(o, Top(s)), Pop(s))

-----------------------------------------------------------------------------
(* The algebra engine (sympy), as far as the handler uses it.              *)
(* An expression is a term <<tag, ...>>: the engine's functions are free   *)
(* constructors, so no two different computations give equal values by     *)
(* accident.  A Matrix is its shape and its grid of cells.  An operation   *)
(* raises where matrix algebra is undefined (shapes that do not fit, the   *)
(* inverse of a singular matrix).                                          *)

Text(chars) == <<"text", chars>>
Str(e) == <<"str", e>>
parse_expr(s) == <<"parse", s>>
sp_simplify(e) == <<"simplify", e>>
doit(e) == <<"doit", e>>
latex(e) == <<"latex", e>>
Arith(op, x, y) == <<"arith", op, x, y>>

Matrix(rows, cols, cell) == [rows |-> rows, cols |-> cols, cell |-> cell]

\* parse_expr raises on a cell text that is no expression: here, a text
\* with an unclosed parenthesis.
ParseRaises(text) ==
    Cardinality({k \in DOMAIN text : text[k] = "("})
        # Cardinality({k \in DOMAIN text : text[k] = ")"})

\* (mutant: a quarter turn, the rows taken from the last to the first)
TransposeTurns(a) ==
    Matrix(a.cols, a.rows,
           [r \in 1..a.cols |-> [c \in 1..a.rows |-> a.cell[a.rows + 1 - c][r]]])

Transpose(a) ==
    Matrix(a.cols, a.rows,
           [r \in 1..a.cols |-> [c \in 1..a.rows |-> a.cell[c][r]]])

IsSquare(a) == a.rows = a.cols
SameShape(a, b) == a.rows = b.rows /\ a.cols = b.cols

MatAdd(op, a, b) ==
    Matrix(a.rows, a.cols,
           [r \in 1..a.rows |-> [c \in 1..a.cols |->
               Arith(op, a.cell[r][c], b.cell[r][c])]])

MatMul(a, b) ==
    Matrix(a.rows, b.cols,
           [r \in 1..a.rows |-> [c \in 1..b.cols |->
               <<"dot", a.cell[r], [k \in 1..b.rows |-> b.cell[k][c]]>>]])

ScalarTimes(x, b) ==
    Matrix(b.rows, b.cols,
           [r \in 1..b.rows |-> [c \in 1..b.cols |->
               Arith("*", x, b.cell[r][c])]])

TimesScalar(a, x) ==
    Matrix(a.rows, a.cols,
           [r \in 1..a.rows |-> [c \in 1..a.cols |->
               Arith("*", a.cell[r][c], x)]])

OverScalar(a, x) ==
    Matrix(a.rows, a.cols,
           [r \in 1..a.rows |-> [c \in 1..a.cols |->
               Arith("/", a.cell[r][c], x)]])

ScalarOver(x, b) ==
    Matrix(b.rows, b.cols,
           [r \in 1..b.rows |-> [c \in 1..b.cols |->
               <<"over", x, b.cell, r, c>>]])

Inverse(a) ==
    Matrix(a.rows, a.cols,
           [r \in 1..a.rows |-> [c \in 1..a.cols |-> <<"inv", a.cell, r, c>>]])

Rref(a) ==
    Matrix(a.rows, a.cols,
           [r \in 1..a.rows |-> [c \in 1..a.cols |-> <<"rref", a.cell, r, c>>]])

Det(a) == <<"det", a.cell>>
Trace(a) == <<"trace", a.cell>>
Rank(a) == <<"rank", a.cell>>

-----------------------------------------------------------------------------
(* build_symbolic_matrix                                                   *)

\* What the loop body raises at cell (r, c): data[r][c] of a row that is
\* too short, or parse_expr of the cell's text.
CellText(data, r, c) ==
    LET text == strip(data[r][c]) IN IF text = <<>> THEN <<"0">> ELSE text

CellError(data, r, c) ==
    IF c > Len(data[r])
    THEN <<"list index out of range">>
    ELSE IF ParseRaises(CellText(data, r, c))
    THEN <<"parse_expr: invalid syntax">>
    ELSE NoError

\* (mutant: the matrix is as wide as the longest row and a missing cell
\* is 0)
build_padded_matrix(data) ==
    LET rows == Len(data)
        lens == {Len(data[r]) : r \in 1..rows}
        cols == IF rows > 0 THEN CHOOSE n \in lens : \A o \in lens : o <= n
                ELSE 0
    IN  [m |-> Matrix(rows, cols,
                  [r \in 1..rows |-> [c \in 1..cols |->
                      IF c > Len(data[r])
                      THEN parse_expr(Text(<<"0">>))
                      ELSE parse_expr(Text(CellText(data, r, c)))]]),
         err |-> NoError]

build_symbolic_matrix(data) ==
    LET rows == Len(data)
        cols == IF rows > 0 THEN Len(data[1]) ELSE 0
        bad == {rc \in (1..rows) \X (1..cols) :
                    CellError(data, rc[1], rc[2]) # NoError}
        \* the loops run row by row: the first bad cell raises
        first == CHOOSE rc \in bad : \A o \in bad :
                    rc[1] < o[1] \/ (rc[1] = o[1] /\ rc[2] <= o[2])
    IN  IF bad # {}
        THEN [m |-> Matrix(0, 0, <<>>),
              err |-> CellError(data, first[1], first[2])]
        ELSE [m |-> Matrix(rows, cols,
                      [r \in 1..rows |-> [c \in 1..cols |->
                          parse_expr(Text(CellText(data, r, c)))]]),
              err |-> NoError]

-----------------------------------------------------------------------------
(* eval_rpn                                                                *)

Val(kind, val) == [kind |-> kind, val |-> val]
Pushed(stk, kind, val) == [stack |-> Append(stk, Val(kind, val)), err |-> NoError]
Raised(stk, msg) == [stack |-> stk, err |-> msg]

\* list.pop() of an empty list
IndexError == <<"pop from empty list">>

\* The dispatch on the function name, for a matrix a; rest is the stack
\* under it.  engine_raises: whether the engine finds the matrix singular.
MatrixFunc(name, a, rest, simplify, engine_raises) ==
    IF name = <<"T">>
    THEN Pushed(rest, "matrix", Transpose(a))
    ELSE IF name = <<"I", "N", "V">>
    THEN IF ~IsSquare(a)
         THEN Raised(rest, <<"Matrix must be square.">>)
         ELSE IF engine_raises
         THEN Raised(rest, <<"Matrix det == 0; not invertible.">>)
         ELSE Pushed(rest, "matrix", Inverse(a))
    ELSE IF name = <<"D", "E", "T">>
    THEN IF ~IsSquare(a)
         THEN Raised(rest, <<"Matrix must be square.">>)
         ELSE Pushed(rest, "scalar",
                     Str(IF simplify THEN sp_simplify(Det(a)) ELSE Det(a)))
    ELSE IF name = <<"T", "R", "A", "C", "E">>
    THEN IF ~IsSquare(a)
         THEN Raised(rest, <<"Matrix must be square.">>)
         ELSE Pushed(rest, "scalar",
                     Str(IF simplify THEN sp_simplify(Trace(a)) ELSE Trace(a)))
    ELSE IF name = <<"R", "A", "N", "K">>
    THEN Pushed(rest, "scalar", Str(<<"int", Rank(a)>>))
    ELSE IF name = <<"R", "R", "E", "F">>
    THEN Pushed(rest, "matrix", Rref(a))
    ELSE Raised(rest, <<"Unsupported function">>)

\* (mutant: a function of a scalar gives the scalar back)
ApplyFuncPassesScalar(name, kind, a, rest, simplify, engine_raises) ==
    IF kind # "matrix"
    THEN Pushed(rest, kind, a)
    ELSE MatrixFunc(name, a, rest, simplify, engine_raises)

\* The FUNC branch, after the pop: a is the popped value, rest the stack
\* under it.
ApplyFunc(name, kind, a, rest, simplify, engine_raises) ==
    IF kind # "matrix"
    THEN Raised(rest, name \o <<" expects a matrix">>)
    ELSE MatrixFunc(name, a, rest, simplify, engine_raises)

\* (mutant: the left operand is left on the stack)
ScalarOpKeepsLeft(tt, a, b, rest, simplify) ==
    LET res == Arith(tt, parse_expr(a), parse_expr(b)) IN
    Pushed(Append(rest, Val("scalar", a)), "scalar",
           Str(IF simplify THEN sp_simplify(res) ELSE res))

\* scalar OP scalar
ScalarOp(tt, a, b, rest, simplify) ==
    LET res == Arith(tt, parse_expr(a), parse_expr(b)) IN
    Pushed(rest, "scalar", Str(IF simplify THEN sp_simplify(res) ELSE res))

\* (mutant: matrix / matrix multiplies by the inverse)
MatrixOpDivides(tt, a, b, rest) ==
    IF tt \in {"+", "-"}
    THEN IF SameShape(a, b)
         THEN Pushed(rest, "matrix", MatAdd(tt, a, b))
         ELSE Raised(rest, <<"Matrix size mismatch.">>)
    ELSE IF a.cols = b.rows
         THEN Pushed(rest, "matrix",
                     MatMul(a, IF tt = "/" THEN Inverse(b) ELSE b))
         ELSE Raised(rest, <<"Matrix size mismatch.">>)

\* matrix OP matrix
MatrixOp(tt, a, b, rest) ==
    IF tt \in {"+", "-"}
    THEN IF SameShape(a, b)
         THEN Pushed(rest, "matrix", MatAdd(tt, a, b))
         ELSE Raised(rest, <<"Matrix size mismatch.">>)
    ELSE IF tt = "*"
    THEN IF a.cols = b.rows
         THEN Pushed(rest, "matrix", MatMul(a, b))
         ELSE Raised(rest, <<"Matrix size mismatch.">>)
    ELSE Raised(rest, <<"Matrix division is not supported">>)

\* The operator branch, after the two pops: a OP b, rest the stack under
\* them.  engine_raises: whether the engine refuses scalar / matrix.
ApplyOp(tt, a_kind, a, b_kind, b, rest, simplify, engine_raises) ==
    IF a_kind = "scalar" /\ b_kind = "matrix" /\ tt = "*"
    THEN Pushed(rest, "matrix", ScalarTimes(parse_expr(a), b))
    ELSE IF a_kind = "matrix" /\ b_kind = "scalar" /\ tt = "*"
    THEN Pushed(rest, "matrix", TimesScalar(a, parse_expr(b)))
    ELSE IF a_kind = "scalar" /\ b_kind = "matrix" /\ tt = "/"
    THEN IF engine_raises
         THEN Raised(rest, <<"unsupported operand type(s) for /">>)
         ELSE Pushed(rest, "matrix", ScalarOver(parse_expr(a), b))
    ELSE IF a_kind = "matrix" /\ b_kind = "scalar" /\ tt = "/"
    THEN Pushed(rest, "matrix", OverScalar(a, parse_expr(b)))
    ELSE IF a_kind = "scalar" /\ b_kind = "scalar"
    THEN ScalarOp(tt, a, b, rest, simplify)
    ELSE IF a_kind # "matrix" \/ b_kind # "matrix"
    THEN Raised(rest, <<"Only matrix-matrix +,-,* are supported">>)
    ELSE MatrixOp(tt, a, b, rest)

\* One iteration of "for t in rpn".
EvalStep(t, stk, mmap, simplify, engine_raises) ==
    LET tt == t.type IN
    IF tt = "VAR"
    THEN IF t.value \notin DOMAIN mmap
         THEN Raised(stk, <<"Unknown matrix: ">> \o t.value)
         ELSE Pushed(stk, "matrix", mmap[t.value])
    ELSE IF tt = "NUMBER"
    THEN Pushed(stk, "scalar", Text(t.value))
    ELSE IF tt = "FUNC"
    THEN IF stk = <<>>
         THEN Raised(stk, IndexError)
         ELSE ApplyFunc(t.value, Top(stk).kind, Top(stk).val, Pop(stk),
                        simplify, engine_raises)
    ELSE IF IsBinOp(tt)
    THEN IF stk = <<>>
         THEN Raised(stk, IndexError)
         ELSE IF Pop(stk) = <<>>
         THEN Raised(Pop(stk), IndexError)
         ELSE ApplyOp(tt, Top(Pop(stk)).kind, Top(Pop(stk)).val,
                      Top(stk).kind, Top(stk).val, Pop(Pop(stk)),
                      simplify, engine_raises)
    ELSE Raised(stk, <<"Invalid token type">>)

format_matrix_result(m, simplify) ==
    [r \in 1..m.rows |-> [c \in 1..m.cols |->
        IF simplify
        THEN latex(sp_simplify(m.cell[r][c]))
        ELSE latex(doit(m.cell[r][c]))]]

\* After the loop: the length check and the rendering of the one value.
NoResp == [status |-> 0, kind |-> "none", value |-> <<>>, detail |-> <<>>]
EvalResponse(kind, value) ==
    [status |-> 200, kind |-> kind, value |-> value, detail |-> <<>>]
HTTPException(status_code, detail) ==
    [status |-> status_code, kind |-> "error", value |-> <<>>, detail |-> detail]

InvalidFormat ==
    <<"Invalid expression format. Use formats like: A + B, T(A), INV(A), DET(A)">>

\* (mutant: the value on top of the stack is the result, whatever is
\* under it)
EvalFinishTop(stk, simplify) ==
    IF Len(stk) = 0
    THEN [resp |-> NoResp, err |-> InvalidFormat]
    ELSE IF stk[Len(stk)].kind = "matrix"
    THEN [resp |-> EvalResponse("matrix",
                       format_matrix_result(stk[Len(stk)].val, simplify)),
          err |-> NoError]
    ELSE LET final_val == parse_expr(stk[Len(stk)].val) IN
         [resp |-> EvalResponse("scalar",
                       latex(IF simplify
                             THEN sp_simplify(final_val)
                             ELSE doit(final_val))),
          err |-> NoError]

EvalFinish(stk, simplify) ==
    IF Len(stk) # 1
    THEN [resp |-> NoResp, err |-> InvalidFormat]
    ELSE IF stk[1].kind = "matrix"
    THEN [resp |-> EvalResponse("matrix",
                       format_matrix_result(stk[1].val, simplify)),
          err |-> NoError]
    ELSE LET final_val == parse_expr(stk[1].val) IN
         [resp |-> EvalResponse("scalar",
                       latex(IF simplify
                             THEN sp_simplify(final_val)
                             ELSE doit(final_val))),
          err |-> NoError]

-----------------------------------------------------------------------------
(* evaluate: the handler, one action per step                              *)

\* (mutant: the error is recorded and the handler goes on)
FailAndContinue(r, msg) ==
    /\ pc' = pc
    /\ resp' = [resp EXCEPT ![r] = HTTPException(400, msg)]

\* except Exception as e: raise HTTPException(status_code=400, detail=str(e))
Fail(r, msg) ==
    /\ pc' = [pc EXCEPT ![r] = "done"]
    /\ resp' = [resp EXCEPT ![r] = HTTPException(400, msg)]

\* (mutant: a name that is bound keeps its first matrix)
BindFirstWins(mmap, key, m) ==
    [n \in DOMAIN mmap \cup {key} |->
        IF n \in DOMAIN mmap THEN mmap[n] ELSE m]

\* matrices_map[key] = m
Bind(mmap, key, m) ==
    [n \in DOMAIN mmap \cup {key} |-> IF n = key THEN m ELSE mmap[n]]

\* (mutant: matrices_map is one table of the module, bound for every
\* request at once)
BuildShared(r) ==
    /\ pc[r] = "build"
    /\ m_idx[r] <= Len(req[r].matrices)
    /\ LET m == req[r].matrices[m_idx[r]]
           b == build_symbolic_matrix(m.data)
       IN  IF b.err # NoError
           THEN Fail(r, b.err) /\ UNCHANGED buildVars
           ELSE /\ matrices_map' = [x \in Reqs |->
                                       Bind(matrices_map[x], upper(m.name), b.m)]
                /\ m_idx' = [m_idx EXCEPT ![r] = @ + 1]
                /\ UNCHANGED <<pc, resp>>
    /\ UNCHANGED <<req, lexVars, rpnVars, evalVars>>

\* One iteration of "for m in req.matrices".
Build(r) ==
    /\ pc[r] = "build"
    /\ m_idx[r] <= Len(req[r].matrices)
    /\ LET m == req[r].matrices[m_idx[r]]
           b == build_symbolic_matrix(m.data)
       IN  IF b.err # NoError
           THEN Fail(r, b.err) /\ UNCHANGED buildVars
           ELSE /\ matrices_map' = [matrices_map EXCEPT
                                       ![r] = Bind(@, upper(m.name), b.m)]
                /\ m_idx' = [m_idx EXCEPT ![r] = @ + 1]
                /\ UNCHANGED <<pc, resp>>
    /\ UNCHANGED <<req, lexVars, rpnVars, evalVars>>

\* The loop is over: tokenize(req.expression) is entered.
CallTokenize(r) ==
    /\ pc[r] = "build"
    /\ m_idx[r] > Len(req[r].matrices)
    /\ pc' = [pc EXCEPT ![r] = "tokenize"]
    /\ i' = [i EXCEPT ![r] = 1]
    /\ raw_tokens' = [raw_tokens EXCEPT ![r] = <<>>]
    /\ tokens' = [tokens EXCEPT ![r] = <<>>]
    /\ UNCHANGED <<req, buildVars, rpnVars, evalVars, resp>>

\* One iteration of "while i < len(expr)".
LexScan(r) ==
    /\ pc[r] = "tokenize"
    /\ i[r] <= Len(req[r].expression)
    /\ LET s == ScanStep(req[r].expression, i[r], raw_tokens[r]) IN
       IF s.err # NoError
       THEN Fail(r, s.err) /\ UNCHANGED lexVars
       ELSE /\ i' = [i EXCEPT ![r] = s.i]
            /\ raw_tokens' = [raw_tokens EXCEPT ![r] = s.raw_tokens]
            /\ UNCHANGED <<tokens, pc, resp>>
    /\ UNCHANGED <<req, buildVars, rpnVars, evalVars>>

\* The second pass; tokenize returns and to_rpn is entered.
LexInsert(r) ==
    /\ pc[r] = "tokenize"
    /\ i[r] > Len(req[r].expression)
    /\ tokens' = [tokens EXCEPT ![r] = SecondPass(raw_tokens[r])]
    /\ pc' = [pc EXCEPT ![r] = "to_rpn"]
    /\ t_idx' = [t_idx EXCEPT ![r] = 1]
    /\ out' = [out EXCEPT ![r] = <<>>]
    /\ ops' = [ops EXCEPT ![r] = <<>>]
    /\ UNCHANGED <<req, buildVars, i, raw_tokens, evalVars, resp>>

\* One iteration of "for t in tokens".
RpnToken(r) ==
    /\ pc[r] = "to_rpn"
    /\ t_idx[r] <= Len(tokens[r])
    /\ LET s == RpnStep(tokens[r][t_idx[r]], out[r], ops[r]) IN
       IF s.err # NoError
       THEN Fail(r, s.err) /\ UNCHANGED rpnVars
       ELSE /\ out' = [out EXCEPT ![r] = s.out]
            /\ ops' = [ops EXCEPT ![r] = s.ops]
            /\ t_idx' = [t_idx EXCEPT ![r] = @ + 1]
            /\ UNCHANGED <<pc, resp>>
    /\ UNCHANGED <<req, buildVars, lexVars, evalVars>>

\* The final drain; to_rpn returns and eval_rpn is entered.
RpnDrain(r) ==
    /\ pc[r] = "to_rpn"
    /\ t_idx[r] > Len(tokens[r])
    /\ LET d == Drain(out[r], ops[r]) IN
       IF d.err # NoError
       THEN Fail(r, d.err) /\ UNCHANGED <<rpnVars, evalVars>>
       ELSE /\ out' = [out EXCEPT ![r] = d.out]
            /\ ops' = [ops EXCEPT ![r] = d.ops]
            /\ rpn' = [rpn EXCEPT ![r] = d.out]
            /\ r_idx' = [r_idx EXCEPT ![r] = 1]
            /\ stack' = [stack EXCEPT ![r] = <<>>]
            /\ pc' = [pc EXCEPT ![r] = "eval_rpn"]
            /\ UNCHANGED <<t_idx, resp>>
    /\ UNCHANGED <<req, buildVars, lexVars>>

\* One iteration of "for t in rpn".
EvalItem(r) ==
    /\ pc[r] = "eval_rpn"
    /\ r_idx[r] <= Len(rpn[r])
    /\ \E engine_raises \in BOOLEAN :
         LET s == EvalStep(rpn[r][r_idx[r]], stack[r], matrices_map[r],
                           req[r].simplify_result, engine_raises)
         IN  IF s.err # NoError
             THEN /\ Fail(r, s.err)
                  /\ stack' = [stack EXCEPT ![r] = s.stack]
                  /\ UNCHANGED <<rpn, r_idx>>
             ELSE /\ stack' = [stack EXCEPT ![r] = s.stack]
                  /\ r_idx' = [r_idx EXCEPT ![r] = @ + 1]
                  /\ UNCHANGED <<rpn, pc, resp>>
    /\ UNCHANGED <<req, buildVars, lexVars, rpnVars>>

\* After the loop: the length check and the response.
EvalReturn(r) ==
    /\ pc[r] = "eval_rpn"
    /\ r_idx[r] > Len(rpn[r])
    /\ LET f == EvalFinish(stack[r], req[r].simplify_result) IN
       IF f.err # NoError
       THEN Fail(r, f.err)
       ELSE /\ pc' = [pc EXCEPT ![r] = "done"]
            /\ resp' = [resp EXCEPT ![r] = f.resp]
    /\ UNCHANGED <<req, buildVars, lexVars, rpnVars, evalVars>>

-----------------------------------------------------------------------------
(* Inputs                                                                  *)

MaxRequestSize == 4
MaxFairRequestSize == 2
MaxPairRequestSize == 2
MaxGridDim == 2
MaxCallTokens == 6
MaxNameLen == 2
MaxKeywordExpr == 4
MaxExprLen == 4
MaxTokens == 4
MaxInfix == 7
MaxRpn == 3

RECURSIVE Flatten(_)
Flatten(ss) == IF ss = <<>> THEN <<>> ELSE Head(ss) \o Flatten(Tail(ss))

MatrixPayload(name, data) ==
    [name |-> name, rows |-> Len(data),
     cols |-> IF data = <<>> THEN 0 ELSE Len(data[1]), data |-> data]
EvalRequest(matrices, expression, simplify_result) ==
    [matrices |-> matrices, expression |-> expression,
     simplify_result |-> simplify_result]

\* The pieces the expression of a request is written with.
Vocabulary == {<<"A">>, <<"b">>, <<"2">>, <<"+">>, <<"(">>, <<")">>, <<"T">>,
               <<"#">>, <<" ">>}

\* The grids of a request: 1x1, 1x2 with a blank cell, and 1x1 with a cell
\* that is no expression.
Grid1x1 == << <<<<"1">>>> >>
Grid1x2 == << <<<<"x">>, <<" ">>>> >>
GridBad == << <<<<"(">>>> >>
Payloads == {MatrixPayload(<<"A">>, Grid1x1), MatrixPayload(<<"a">>, Grid1x2),
             MatrixPayload(<<"b">>, Grid1x1), MatrixPayload(<<"b">>, GridBad)}

\* The size of a request is the count of its matrices and of the pieces of
\* its expression together.
RequestSizes(size) ==
    {n \in (0..size) \X (0..size) : n[1] + n[2] <= size}

\* The state of a handler at stage `at`, with the bindings, tokens and
\* postfix list the earlier stages left.
Start(q, at, mmap, toks, items) ==
    /\ req = (1 :> q)
    /\ pc = (1 :> at)
    /\ m_idx = (1 :> IF at = "build" THEN 1 ELSE Len(q.matrices) + 1)
    /\ matrices_map = (1 :> mmap)
    /\ i = (1 :> 1)
    /\ raw_tokens = (1 :> <<>>)
    /\ tokens = (1 :> toks)
    /\ t_idx = (1 :> 1)
    /\ out = (1 :> <<>>)
    /\ ops = (1 :> <<>>)
    /\ rpn = (1 :> items)
    /\ r_idx = (1 :> 1)
    /\ stack = (1 :> <<>>)
    /\ resp = (1 :> NoResp)

NoBindings == <<>>

\* evaluate, from a request of up to `size` on
InitUpTo(size) ==
    \E n \in RequestSizes(size) :
        \E ms \in [1..n[1] -> Payloads], cs \in [1..n[2] -> Vocabulary],
           sr \in BOOLEAN :
            Start(EvalRequest(ms, Flatten(cs), sr), "build", NoBindings,
                  <<>>, <<>>)

Init == InitUpTo(MaxRequestSize)

Next ==
    \/ \E r \in Reqs : Build(r)
    \/ \E r \in Reqs : CallTokenize(r)
    \/ \E r \in Reqs : LexScan(r)
    \/ \E r \in Reqs : LexInsert(r)
    \/ \E r \in Reqs : RpnToken(r)
    \/ \E r \in Reqs : RpnDrain(r)
    \/ \E r \in Reqs : EvalItem(r)
    \/ \E r \in Reqs : EvalReturn(r)

Spec == Init /\ [][Next]_vars

\* The handler is a sequential function of finite loops: a step that can be
\* taken is taken.
InitFair == InitUpTo(MaxFairRequestSize)
FairSpec == InitFair /\ [][Next]_vars /\ WF_vars(Next)

\* evaluate run from its first line to its last with no other request:
\* the body of the handler as one function of the request.
RECURSIVE BuildAll(_, _, _)
BuildAll(ms, k, mmap) ==
    IF k > Len(ms)
    THEN [map |-> mmap, err |-> NoError]
    ELSE LET b == build_symbolic_matrix(ms[k].data) IN
         IF b.err # NoError
         THEN [map |-> mmap, err |-> b.err]
         ELSE BuildAll(ms, k + 1, Bind(mmap, upper(ms[k].name), b.m))

RECURSIVE ScanAll(_, _, _)
ScanAll(expr, p, raw) ==
    IF p > Len(expr)
    THEN [tokens |-> SecondPass(raw), err |-> NoError]
    ELSE LET s == ScanStep(expr, p, raw) IN
         IF s.err # NoError
         THEN [tokens |-> <<>>, err |-> s.err]
         ELSE ScanAll(expr, s.i, s.raw_tokens)

RECURSIVE RpnAll(_, _, _, _)
RpnAll(toks, k, o, s) ==
    IF k > Len(toks)
    THEN LET d == Drain(o, s) IN
         [rpn |-> IF d.err = NoError THEN d.out ELSE <<>>, err |-> d.err]
    ELSE LET n == RpnStep(toks[k], o, s) IN
         IF n.err # NoError
         THEN [rpn |-> <<>>, err |-> n.err]
         ELSE RpnAll(toks, k + 1, n.out, n.ops)

\* eval_rpn: the responses it can end in, over the outcomes of the engine
RECURSIVE EvalAll(_, _, _, _, _)
EvalAll(items, k, stk, mmap, simplify) ==
    IF k > Len(items)
    THEN LET f == EvalFinish(stk, simplify) IN
         {IF f.err # NoError THEN HTTPException(400, f.err) ELSE f.resp}
    ELSE UNION {LET s == EvalStep(items[k], stk, mmap, simplify, engine_raises)
                IN  IF s.err # NoError
                    THEN {HTTPException(400, s.err)}
                    ELSE EvalAll(items, k + 1, s.stack, mmap, simplify)
                : engine_raises \in BOOLEAN}

RunAlone(q) ==
    LET b == BuildAll(q.matrices, 1, NoBindings) IN
    IF b.err # NoError THEN {HTTPException(400, b.err)} ELSE
    LET t == ScanAll(q.expression, 1, <<>>) IN
    IF t.err # NoError THEN {HTTPException(400, t.err)} ELSE
    LET p == RpnAll(t.tokens, 1, <<>>, <<>>) IN
    IF p.err # NoError THEN {HTTPException(400, p.err)} ELSE
    EvalAll(p.rpn, 1, <<>>, b.map, q.simplify_result)

\* Two requests in the thread pool at once, each of size up to
\* MaxPairRequestSize, their steps interleaved in any order.  The first
\* asks for no simplification and the second for it.
PairVocabulary == {<<"A">>, <<"+">>, <<"#">>, <<")">>}
PairPayloads == {MatrixPayload(<<"A">>, Grid1x1), MatrixPayload(<<"a">>, Grid1x2),
                 MatrixPayload(<<"b">>, GridBad)}

PairRequests(sr) ==
    UNION {{EvalRequest(ms, Flatten(cs), sr) :
               ms \in [1..n[1] -> PairPayloads],
               cs \in [1..n[2] -> PairVocabulary]} :
           n \in RequestSizes(MaxPairRequestSize)}

InitPair ==
    \E q1 \in PairRequests(FALSE), q2 \in PairRequests(TRUE) :
        /\ req = <<q1, q2>>
        /\ pc = <<"build", "build">>
        /\ m_idx = <<1, 1>>
        /\ matrices_map = <<NoBindings, NoBindings>>
        /\ i = <<1, 1>>
        /\ raw_tokens = <<<<>>, <<>>>>
        /\ tokens = <<<<>>, <<>>>>
        /\ t_idx = <<1, 1>>
        /\ out = <<<<>>, <<>>>>
        /\ ops = <<<<>>, <<>>>>
        /\ rpn = <<<<>>, <<>>>>
        /\ r_idx = <<1, 1>>
        /\ stack = <<<<>>, <<>>>>
        /\ resp = <<NoResp, NoResp>>

SpecPair == InitPair /\ [][Next]_vars

\* evaluate on one matrix A whose grid has up to MaxGridDim rows of up to
\* MaxGridDim cells each, rows of unequal length included, with the
\* declared rows and cols right or wrong, and the expression A, T(A) or
\* T(T(A)).
GridCells == {<<"x">>, <<" ">>}
GridRows == UNION {[1..n -> GridCells] : n \in 0..MaxGridDim}
Grids == UNION {[1..n -> GridRows] : n \in 0..MaxGridDim}

Declared(name, data, off) ==
    [name |-> name, rows |-> Len(data) + off,
     cols |-> (IF data = <<>> THEN 0 ELSE Len(data[1])) + off, data |-> data]

ExprA == <<"A">>
ExprTA == <<"T", "(", "A", ")">>
ExprTTA == <<"T", "(", "T", "(", "A", ")", ")">>

InitGrid ==
    \E data \in Grids, off \in {0, 1}, e \in {ExprA, ExprTA, ExprTTA},
       sr \in BOOLEAN :
        Start(EvalRequest(<<Declared(<<"A">>, data, off)>>, e, sr), "build",
              NoBindings, <<>>, <<>>)

SpecGrid == InitGrid /\ [][Next]_vars

\* evaluate on the expression X(Y), X and Y being names of up to
\* MaxNameLen letters that are no keyword, each bound to a matrix
NameLetters == {"A", "b", "T"}
MatrixNames ==
    {w \in UNION {[1..n -> NameLetters] : n \in 1..MaxNameLen} :
        upper(w) \notin funcs}

InitJuxta ==
    \E x \in MatrixNames, y \in MatrixNames, gx \in {Grid1x1, Grid1x2},
       gy \in {Grid1x1, Grid1x2}, sr \in BOOLEAN :
        Start(EvalRequest(<<MatrixPayload(x, gx), MatrixPayload(y, gy)>>,
                          x \o <<"(">> \o y \o <<")">>, sr),
              "build", NoBindings, <<>>, <<>>)

SpecJuxta == InitJuxta /\ [][Next]_vars

\* evaluate with a 1x2 matrix bound under a keyword's name and a 1x1
\* matrix bound to A, on every expression of up to MaxKeywordExpr pieces
KeywordNames == {<<"T">>, <<"t">>, <<"D", "e", "t">>}
KeywordVocabulary ==
    {<<"T">>, <<"t">>, <<"d", "e", "t">>, <<"A">>, <<"(">>, <<")">>, <<" ">>}

InitKeyword ==
    \E name \in KeywordNames, n \in 0..MaxKeywordExpr :
        \E cs \in [1..n -> KeywordVocabulary] :
            Start(EvalRequest(<<MatrixPayload(name, Grid1x2),
                                MatrixPayload(<<"A">>, Grid1x1)>>,
                              Flatten(cs), FALSE),
                  "build", NoBindings, <<>>, <<>>)

SpecKeyword == InitKeyword /\ [][Next]_vars

\* tokenize alone, on every text of up to MaxExprLen characters
LexAlphabet == {" ", "+", "(", ")", "2", ".", "a", "B", "#"}

InitLex ==
    \E n \in 0..MaxExprLen :
        \E e \in [1..n -> LexAlphabet] :
            Start(EvalRequest(<<>>, e, FALSE), "tokenize", NoBindings,
                  <<>>, <<>>)

NextLex ==
    \/ \E r \in Reqs : LexScan(r)
    \/ \E r \in Reqs : LexInsert(r)

SpecLex == InitLex /\ [][NextLex]_vars

\* to_rpn alone, on every sequence of up to MaxTokens tokens
WordA == Tok("WORD", <<"A">>)
WordB == Tok("WORD", <<"B">>)
WordT == Tok("WORD", <<"T">>)
Num2 == Tok("NUMBER", <<"2">>)
LParen == Tok("(", <<"(">>)
RParen == Tok(")", <<")">>)
OpTok(op) == Tok(op, <<op>>)
TokenAlphabet ==
    {WordA, WordB, WordT, Num2, LParen, RParen}
        \cup {OpTok(op) : op \in DOMAIN prec}

InitRpn ==
    \E n \in 0..MaxTokens :
        \E toks \in [1..n -> TokenAlphabet] :
            Start(EvalRequest(<<>>, <<>>, FALSE), "to_rpn", NoBindings,
                  toks, <<>>)

NextRpn ==
    \/ \E r \in Reqs : RpnToken(r)
    \/ \E r \in Reqs : RpnDrain(r)

SpecRpn == InitRpn /\ [][NextRpn]_vars

\* to_rpn on every sequence of up to MaxCallTokens tokens of A, B, T, the
\* parentheses and *
CallAlphabet == {WordA, WordB, WordT, LParen, RParen, OpTok("*")}

InitCall ==
    \E n \in 0..MaxCallTokens :
        \E toks \in [1..n -> CallAlphabet] :
            Start(EvalRequest(<<>>, <<>>, FALSE), "to_rpn", NoBindings,
                  toks, <<>>)

SpecCall == InitCall /\ [][NextRpn]_vars

\* to_rpn on the well-formed infix sequences of up to MaxInfix tokens:
\* an operand, ( e ), T ( e ), e op e
InfixOperands == {WordA, WordB, Num2}

Infix[n \in 1..MaxInfix] ==
    IF n = 1
    THEN {<<t>> : t \in InfixOperands}
    ELSE IF n = 2
    THEN {}
    ELSE {<<LParen>> \o e \o <<RParen>> : e \in Infix[n - 2]}
         \cup (IF n >= 4
               THEN {<<WordT, LParen>> \o e \o <<RParen>> : e \in Infix[n - 3]}
               ELSE {})
         \cup UNION {{l \o <<OpTok(op)>> \o e :
                         l \in Infix[k], op \in DOMAIN prec,
                         e \in Infix[n - 1 - k]} : k \in 1..(n - 2)}

InitInfix ==
    \E n \in 1..MaxInfix :
        \E toks \in Infix[n] :
            Start(EvalRequest(<<>>, <<>>, FALSE), "to_rpn", NoBindings,
                  toks, <<>>)

SpecInfix == InitInfix /\ [][NextRpn]_vars

\* eval_rpn alone, on every postfix list of up to MaxRpn items, with A
\* bound to a 1x1 and B to a 1x2 matrix
EvalMatrices ==
    <<MatrixPayload(<<"A">>, Grid1x1), MatrixPayload(<<"B">>, Grid1x2)>>
EvalBindings ==
    Bind(Bind(NoBindings, <<"A">>, build_symbolic_matrix(Grid1x1).m),
         <<"B">>, build_symbolic_matrix(Grid1x2).m)
RpnAlphabet ==
    {Tok("VAR", <<"A">>), Tok("VAR", <<"B">>), Tok("NUMBER", <<"2">>)}
    \cup {Tok("FUNC", f) : f \in funcs}
    \cup {OpTok(op) : op \in DOMAIN prec}

InitEval ==
    \E n \in 0..MaxRpn :
        \E items \in [1..n -> RpnAlphabet], sr \in BOOLEAN :
            Start(EvalRequest(EvalMatrices, <<>>, sr), "eval_rpn",
                  EvalBindings, <<>>, items)

NextEval ==
    \/ \E r \in Reqs : EvalItem(r)
    \/ \E r \in Reqs : EvalReturn(r)

SpecEval == InitEval /\ [][NextEval]_vars

-----------------------------------------------------------------------------
(* Values of expressions, for the claims about to_rpn.                     *)
(* A value is the term an expression denotes: a leaf for an operand,       *)
(* call(f, x) and bin(op, x, y).  Two expressions with the same term have  *)
(* the same result whatever the operands stand for.                        *)

Leaf(kind, value) == <<"leaf", kind, value>>
Call(f, x) == <<"call", f, x>>
Bin(op, x, y) == <<"bin", op, x, y>>
NoValue == [ok |-> FALSE, tree |-> <<>>, pos |-> 0]
Value(tree, pos) == [ok |-> TRUE, tree |-> tree, pos |-> pos]

IsOperand(t) ==
    t.type = "NUMBER" \/ (t.type = "WORD" /\ t.value \notin funcs)

\* The infix expression read directly, by the grammar of standard
\* precedence:  E ::= M { (+|-) M }   M ::= F { (*|/) F }
\*              F ::= operand | ( E ) | keyword ( E )
\* each { } grouping to the left.
RECURSIVE InfixSum(_, _)
RECURSIVE InfixSumRest(_, _, _)
RECURSIVE InfixProduct(_, _)
RECURSIVE InfixProductRest(_, _, _)
RECURSIVE InfixFactor(_, _)

InfixParen(toks, p) ==
    LET e == InfixSum(toks, p + 1) IN
    IF e.ok /\ e.pos <= Len(toks) /\ toks[e.pos].type = ")"
    THEN Value(e.tree, e.pos + 1)
    ELSE NoValue

InfixFactor(toks, p) ==
    IF p > Len(toks)
    THEN NoValue
    ELSE IF IsOperand(toks[p])
    THEN Value(Leaf(IF toks[p].type = "WORD" THEN "VAR" ELSE "NUMBER",
                    toks[p].value), p + 1)
    ELSE IF toks[p].type = "("
    THEN InfixParen(toks, p)
    ELSE IF toks[p].type = "WORD" /\ p + 1 <= Len(toks)
            /\ toks[p + 1].type = "("
    THEN LET e == InfixParen(toks, p + 1) IN
         IF e.ok THEN Value(Call(toks[p].value, e.tree), e.pos) ELSE NoValue
    ELSE NoValue

InfixProductRest(toks, p, left) ==
    IF p <= Len(toks) /\ toks[p].type \in {"*", "/"}
    THEN LET f == InfixFactor(toks, p + 1) IN
         IF f.ok
         THEN InfixProductRest(toks, f.pos, Bin(toks[p].type, left, f.tree))
         ELSE NoValue
    ELSE Value(left, p)

InfixProduct(toks, p) ==
    LET f == InfixFactor(toks, p) IN
    IF f.ok THEN InfixProductRest(toks, f.pos, f.tree) ELSE NoValue

InfixSumRest(toks, p, left) ==
    IF p <= Len(toks) /\ toks[p].type \in {"+", "-"}
    THEN LET m == InfixProduct(toks, p + 1) IN
         IF m.ok
         THEN InfixSumRest(toks, m.pos, Bin(toks[p].type, left, m.tree))
         ELSE NoValue
    ELSE Value(left, p)

InfixSum(toks, p) ==
    LET m == InfixProduct(toks, p) IN
    IF m.ok THEN InfixSumRest(toks, m.pos, m.tree) ELSE NoValue

InfixValue(toks) ==
    LET e == InfixSum(toks, 1) IN
    IF e.ok /\ e.pos = Len(toks) + 1 THEN e ELSE NoValue

\* The postfix sequence evaluated: operands are pushed, a FUNC takes one
\* value and an operator two (the second popped is the left operand).
RECURSIVE PostfixStack(_, _, _)
PostfixStack(items, k, stk) ==
    IF k > Len(items)
    THEN stk
    ELSE LET t == items[k] IN
         IF t.type \in {"VAR", "NUMBER"}
         THEN PostfixStack(items, k + 1, Append(stk, Leaf(t.type, t.value)))
         ELSE IF t.type = "FUNC"
         THEN IF Len(stk) < 1
              THEN <<>>
              ELSE PostfixStack(items, k + 1,
                       Append(Pop(stk), Call(t.value, Top(stk))))
         ELSE IF Len(stk) < 2
              THEN <<>>
              ELSE PostfixStack(items, k + 1,
                       Append(Pop(Pop(stk)),
                              Bin(t.type, Top(Pop(stk)), Top(stk))))

PostfixValue(items) ==
    LET stk == PostfixStack(items, 1, <<>>) IN
    IF Len(stk) = 1 THEN Value(stk[1], Len(items) + 1) ELSE NoValue

Item(t) == Tok(IF t.type = "WORD" THEN "VAR" ELSE t.type, t.value)

\* to_rpn has returned or raised
RpnOver(r) == pc[r] \in {"eval_rpn", "done"}

\* C1: for every well-formed infix token sequence, to_rpn returns a postfix
\* sequence whose value is the value of the infix expression under standard
\* precedence (* and / bind tighter than + and -, equal precedence groups to
\* the left, parentheses override both); x + y * z yields x, y, z, *, +.
C1_PostfixMatchesInfix ==
    \A r \in Reqs :
        RpnOver(r) /\ InfixValue(tokens[r]).ok =>
            /\ pc[r] = "eval_rpn"
            /\ PostfixValue(rpn[r]).ok
            /\ PostfixValue(rpn[r]).tree = InfixValue(tokens[r]).tree
            /\ \A x, y, z \in InfixOperands :
                 tokens[r] = <<x, OpTok("+"), y, OpTok("*"), z>> =>
                     rpn[r] = <<Item(x), Item(y), Item(z), OpTok("*"),
                                OpTok("+")>>

\* (A + B) * 2 has been converted: parentheses override precedence.
C1_Witness ==
    \E r \in Reqs :
        /\ pc[r] = "eval_rpn"
        /\ tokens[r] = <<LParen, WordA, OpTok("+"), WordB, RParen,
                         OpTok("*"), Num2>>
        /\ rpn[r] = <<Item(WordA), Item(WordB), OpTok("+"), Item(Num2),
                      OpTok("*")>>

-----------------------------------------------------------------------------
(* Claims about eval_rpn                                                   *)

\* eval_rpn is about to apply the binary operator rpn[r_idx] to two values
AtOperator(r) ==
    /\ pc[r] = "eval_rpn"
    /\ r_idx[r] <= Len(rpn[r])
    /\ IsBinOp(rpn[r][r_idx[r]].type)
    /\ Len(stack[r]) >= 2

\* eval_rpn is about to apply the function rpn[r_idx] to a value
AtFunction(r) ==
    /\ pc[r] = "eval_rpn"
    /\ r_idx[r] <= Len(rpn[r])
    /\ rpn[r][r_idx[r]].type = "FUNC"
    /\ Len(stack[r]) >= 1

LeftKind(r) == stack[r][Len(stack[r]) - 1].kind
RightKind(r) == stack[r][Len(stack[r])].kind

\* The step consumed n values and pushed one of kind k; the rest of the
\* stack is as it was and the loop goes on.
Replaced(r, n, k) ==
    /\ pc'[r] = "eval_rpn"
    /\ r_idx'[r] = r_idx[r] + 1
    /\ Len(stack'[r]) = Len(stack[r]) - n + 1
    /\ SubSeq(stack'[r], 1, Len(stack[r]) - n)
           = SubSeq(stack[r], 1, Len(stack[r]) - n)
    /\ Top(stack'[r]).kind = k

\* The step ended the request with this error and no result.
FailedWith(r, msg) == resp'[r] = HTTPException(400, msg) /\ pc'[r] = "done"

\* The errors of the algebra engine
EngineErrors ==
    {<<"Matrix size mismatch.">>, <<"Matrix must be square.">>,
     <<"Matrix det == 0; not invertible.">>,
     <<"unsupported operand type(s) for /">>}

\* The kind the dispatch table gives a OP b; "none" where it gives no
\* result.
TableKind(op, ak, bk) ==
    IF ak = "scalar" /\ bk = "scalar" THEN "scalar"
    ELSE IF ak # bk /\ op \in {"*", "/"} THEN "matrix"
    ELSE IF ak = "matrix" /\ bk = "matrix" /\ op \in {"+", "-", "*"}
    THEN "matrix"
    ELSE "none"

C3_UnsupportedOperands ==
    [][\A r \in Reqs :
         LET op == rpn[r][r_idx[r]].type IN
         AtOperator(r) =>
           /\ (op = "/" /\ LeftKind(r) = "matrix" /\ RightKind(r) = "matrix"
                 => FailedWith(r, <<"Matrix division is not supported">>))
           /\ (op \in {"+", "-"} /\ LeftKind(r) # RightKind(r)
                 => FailedWith(r, <<"Only matrix-matrix +,-,* are supported">>))
      ]_vars

\* A / A has been refused.
C3_Witness ==
    \E r \in Reqs :
        /\ rpn[r] = <<Tok("VAR", <<"A">>), Tok("VAR", <<"A">>), OpTok("/")>>
        /\ pc[r] = "done"
        /\ resp[r] = HTTPException(400, <<"Matrix division is not supported">>)

MatrixFuncs == {<<"T">>, <<"I", "N", "V">>, <<"R", "R", "E", "F">>}
ScalarFuncs == {<<"D", "E", "T">>, <<"T", "R", "A", "C", "E">>,
                <<"R", "A", "N", "K">>}

\* a function applied to a number literal, or directly to the result of
\* DET, TRACE or RANK
FuncOfScalar(items) ==
    \E k \in 1..(Len(items) - 1) :
        /\ items[k + 1].type = "FUNC"
        /\ \/ items[k].type = "NUMBER"
           \/ items[k].type = "FUNC" /\ items[k].value \in ScalarFuncs

AtUnderflow(r) ==
    /\ pc[r] = "eval_rpn"
    /\ r_idx[r] <= Len(rpn[r])
    /\ \/ IsBinOp(rpn[r][r_idx[r]].type) /\ Len(stack[r]) < 2
       \/ rpn[r][r_idx[r]].type = "FUNC" /\ Len(stack[r]) < 1

\* the end of the list is reached with no value or several on the stack
AtEndUnreduced(r) ==
    /\ pc[r] = "eval_rpn"
    /\ r_idx[r] > Len(rpn[r])
    /\ Len(stack[r]) # 1

\* C5: a malformed postfix list is rejected with "Invalid expression
\* format...": when the list ends with no value or several on the stack,
\* and when an operator finds fewer than two values or a function none.
C5_MalformedRejected ==
    [][\A r \in Reqs :
         AtUnderflow(r) \/ AtEndUnreduced(r) => FailedWith(r, InvalidFormat)
      ]_vars

-----------------------------------------------------------------------------
(* Claims about tokenize                                                   *)

\* The insertion rules, as stated: after a NUMBER before a WORD or "(",
\* after a ")" before a WORD, "(" or NUMBER.
RuleMatches(prev, curr) ==
    \/ prev.type = "NUMBER" /\ curr.type \in {"WORD", "("}
    \/ prev.type = ")" /\ curr.type \in {"WORD", "(", "NUMBER"}

\* the positions k of raw whose pair (raw[k-1], raw[k]) matches a rule
MatchingPairs(raw) ==
    {k \in 2..Len(raw) : RuleMatches(raw[k - 1], raw[k])}

\* where raw[k] stands in the output: after one "*" per matching pair up
\* to it
PlaceOf(raw, k) == k + Cardinality({j \in MatchingPairs(raw) : j <= k})

Star == Tok("*", <<"*">>)

\* C6: when tokenize succeeds, its output is the raw token sequence with
\* one "*" between each adjacent raw pair matching a rule and nothing else
\* inserted, never after a WORD: its length is the raw count plus the
\* number of matching pairs and the raw tokens stand in it in order.  "2a"
\* gives NUMBER(2), *, WORD(A); "a(B)" gets no insertion.
C6_ImplicitMultiplication ==
    \A r \in Reqs :
        pc[r] = "to_rpn" =>
            LET raw == raw_tokens[r]
                toks == tokens[r]
            IN  /\ Len(toks) = Len(raw) + Cardinality(MatchingPairs(raw))
                /\ \A k \in 1..Len(raw) : toks[PlaceOf(raw, k)] = raw[k]
                /\ \A k \in MatchingPairs(raw) : toks[PlaceOf(raw, k) - 1] = Star
                /\ \A k \in 2..Len(raw) :
                     raw[k - 1].type = "WORD" =>
                         PlaceOf(raw, k) = PlaceOf(raw, k - 1) + 1
                /\ req[r].expression = <<"2", "a">> =>
                     toks = <<Num2, Star, WordA>>
                /\ req[r].expression = <<"a", "(", "B", ")">> =>
                     toks = <<WordA, LParen, WordB, RParen>>

\* )(2 has been tokenized with two insertions.
C6_Witness ==
    \E r \in Reqs :
        /\ pc[r] = "to_rpn"
        /\ raw_tokens[r] = <<RParen, LParen, Num2>>
        /\ tokens[r] = <<RParen, Star, LParen, Num2>>

\* The run of digits and dots around position p starts at RunStart.
InRun(e, p) == e[p] \in digits \/ e[p] = "."
RunStart(e, p) ==
    CHOOSE s \in 1..p :
        /\ \A k \in s..p : InRun(e, k)
        /\ s = 1 \/ ~InRun(e, s - 1)

\* An unrecognized character: not whitespace, not one of + - * / ( ), not a
\* digit, not a letter, and not a dot of a number; a dot is of a number
\* unless it begins a run and no digit follows it.
Unrecognized(e, p) ==
    /\ ~isspace(e[p])
    /\ e[p] \notin opsChars \cup digits \cup letters
    /\ e[p] = "." =>
         /\ RunStart(e, p) = p
         /\ ~(p + 1 <= Len(e) /\ e[p + 1] \in digits)

\* A dot that is not the first dot of its number.
SecondDot(e, q) ==
    /\ e[q] = "."
    /\ ~Unrecognized(e, RunStart(e, q))
    /\ \E p \in RunStart(e, q)..(q - 1) : e[p] = "."

Defects(e) == {p \in 1..Len(e) : Unrecognized(e, p) \/ SecondDot(e, p)}
FirstDefect(e) == CHOOSE p \in Defects(e) : \A o \in Defects(e) : p <= o

LexOver(r) == pc[r] \in {"to_rpn", "done"}

\* C7 as stated: tokenize fails, returning no tokens, on every input with
\* an unrecognized character, with a message naming the offending
\* character, and on every input with a number of more than one dot.
C7_AsStated ==
    \A r \in Reqs :
        LET e == req[r].expression IN
        LexOver(r) =>
            /\ (\E p \in 1..Len(e) : Unrecognized(e, p)) =>
                 /\ pc[r] = "done" /\ tokens[r] = <<>>
                 /\ \E p \in 1..Len(e) :
                      /\ Unrecognized(e, p)
                      /\ resp[r] = HTTPException(400,
                                       <<"Unexpected character: ", e[p]>>)
            /\ (\E q \in 1..Len(e) : SecondDot(e, q)) =>
                 /\ pc[r] = "done" /\ tokens[r] = <<>>
                 /\ resp[r].status = 400

\* C7, amended: tokenize fails, returning no tokens, on every input with
\* an unrecognized character or a number of more than one dot, and on no
\* other; the message is that of the first of these in the text: it names
\* the unrecognized character, or is "Invalid number format" at a second
\* dot.
C7_FirstDefectRaises ==
    \A r \in Reqs :
        LET e == req[r].expression IN
        LexOver(r) =>
            IF Defects(e) = {}
            THEN pc[r] = "to_rpn"
            ELSE /\ pc[r] = "done" /\ tokens[r] = <<>>
                 /\ resp[r] = HTTPException(400,
                        IF Unrecognized(e, FirstDefect(e))
                        THEN <<"Unexpected character: ", e[FirstDefect(e)]>>
                        ELSE <<"Invalid number format">>)

\* 2..# has been refused for its number, not for its "#".
C7_Witness ==
    \E r \in Reqs :
        /\ req[r].expression = <<"2", ".", ".", "#">>
        /\ pc[r] = "done"
        /\ resp[r] = HTTPException(400, <<"Invalid number format">>)

-----------------------------------------------------------------------------
(* Claims about parentheses                                                *)

\* the "(" less the ")" among the first k tokens
Depth(toks, k) ==
    Cardinality({j \in 1..k : toks[j].type = "("})
        - Cardinality({j \in 1..k : toks[j].type = ")"})

\* the positions of a ")" with no unmatched "(" before it
Unmatched(toks) == {k \in 1..Len(toks) : Depth(toks, k) < 0}
FirstUnmatched(toks) ==
    CHOOSE k \in Unmatched(toks) : \A o \in Unmatched(toks) : k <= o

Mismatched == HTTPException(400, <<"Mismatched parentheses">>)
RpnOverAt(r) == pc[r] \in {"eval_rpn", "done"}

\* C8: to_rpn fails with "Mismatched parentheses" on every token sequence
\* with unbalanced parentheses and returns no postfix sequence: at the
\* first ")" with no unmatched "(" before it, as in A+B), and otherwise in
\* the final drain when a "(" is never closed, as in (A+B.  A sequence with
\* balanced parentheses gets its postfix sequence.
C8_MismatchedParentheses ==
    \A r \in Reqs :
        LET toks == tokens[r] IN
        RpnOverAt(r) =>
            /\ IF Unmatched(toks) # {}
               THEN /\ pc[r] = "done" /\ resp[r] = Mismatched
                    /\ t_idx[r] = FirstUnmatched(toks)
                    /\ rpn[r] = <<>>
               ELSE IF Depth(toks, Len(toks)) > 0
               THEN /\ pc[r] = "done" /\ resp[r] = Mismatched
                    /\ t_idx[r] = Len(toks) + 1
                    /\ rpn[r] = <<>>
               ELSE pc[r] = "eval_rpn"
            /\ toks \in {<<WordA, OpTok("+"), WordB, RParen>>,
                         <<LParen, WordA, OpTok("+"), WordB>>} =>
                 resp[r] = Mismatched

\* (A+B has been refused in the final drain.
C8_Witness ==
    \E r \in Reqs :
        /\ tokens[r] = <<LParen, WordA, OpTok("+"), WordB>>
        /\ pc[r] = "done"
        /\ t_idx[r] = 5
        /\ resp[r] = Mismatched

-----------------------------------------------------------------------------
(* Claims about the bindings                                               *)

AtVariable(r) ==
    /\ pc[r] = "eval_rpn"
    /\ r_idx[r] <= Len(rpn[r])
    /\ rpn[r][r_idx[r]].type = "VAR"

\* the entries of the request's matrix list named as the word is, case
\* apart
EntriesNamed(r, word) ==
    {k \in 1..Len(req[r].matrices) :
        upper(req[r].matrices[k].name) = upper(word)}

LastOf(S) == CHOOSE k \in S : \A o \in S : o <= k

\* C9: a variable word resolves to the matrix built from the last entry of
\* the request's matrix list whose uppercased name is the uppercased word;
\* with no such entry the evaluation fails with "Unknown matrix: <name>";
\* the bindings do not change once the matrices are built.
C9_VariableResolution ==
    [][\A r \in Reqs :
         /\ AtVariable(r) =>
              LET word == rpn[r][r_idx[r]].value
                  named == EntriesNamed(r, word)
              IN  IF named = {}
                  THEN FailedWith(r, <<"Unknown matrix: ">> \o word)
                  ELSE /\ stack'[r] = Append(stack[r],
                              Val("matrix", build_symbolic_matrix(
                                  req[r].matrices[LastOf(named)].data).m))
                       /\ pc'[r] = "eval_rpn"
         /\ pc[r] # "build" => matrices_map'[r] = matrices_map[r]
      ]_vars

\* With A bound to a 1x1 and then a to a 1x2 matrix, the word A has been
\* resolved to the 1x2 matrix.
C9_Witness ==
    \E r \in Reqs :
        /\ Len(req[r].matrices) = 2
        /\ req[r].matrices[1] = MatrixPayload(<<"A">>, Grid1x1)
        /\ req[r].matrices[2] = MatrixPayload(<<"a">>, Grid1x2)
        /\ rpn[r] = <<Tok("VAR", <<"A">>)>>
        /\ r_idx[r] = 2
        /\ stack[r] = <<Val("matrix", build_symbolic_matrix(Grid1x2).m)>>

-----------------------------------------------------------------------------
(* Claims about the handler as a whole                                     *)

StageOrder == <<"build", "tokenize", "to_rpn", "eval_rpn", "done">>
StageOf(p) == CHOOSE k \in DOMAIN StageOrder : StageOrder[k] = p

BuildOver(r) == m_idx[r] > Len(req[r].matrices)
LexRan(r) == i[r] # 1 \/ raw_tokens[r] # <<>> \/ tokens[r] # <<>>
LexDone(r) == i[r] > Len(req[r].expression)
RpnRan(r) == t_idx[r] # 1 \/ out[r] # <<>> \/ ops[r] # <<>>
RpnDone(r) == t_idx[r] > Len(tokens[r])
EvalRan(r) == r_idx[r] # 1 \/ rpn[r] # <<>> \/ stack[r] # <<>>
EvalDone(r) == r_idx[r] > Len(rpn[r])

\* one response tagged matrix or scalar, or one error of status 400 with
\* one message and no result
OneOutcome(r) ==
    \/ /\ resp[r].status = 200
       /\ resp[r].kind \in {"matrix", "scalar"}
       /\ resp[r].detail = <<>>
       /\ BuildOver(r) /\ LexDone(r) /\ RpnDone(r) /\ EvalDone(r)
    \/ /\ resp[r].status = 400
       /\ resp[r].kind = "error"
       /\ resp[r].detail # <<>>
       /\ resp[r].value = <<>>

\* a stage has run only if the stages before it were completed
StagesInOrder(r) ==
    /\ LexRan(r) => BuildOver(r)
    /\ RpnRan(r) => BuildOver(r) /\ LexDone(r)
    /\ EvalRan(r) => BuildOver(r) /\ LexDone(r) /\ RpnDone(r)

\* the variables of the stages after build, after tokenize, after to_rpn
AfterBuild(r) ==
    <<i[r], raw_tokens[r], tokens[r], t_idx[r], out[r], ops[r], rpn[r],
      r_idx[r], stack[r]>>
AfterLex(r) == <<t_idx[r], out[r], ops[r], rpn[r], r_idx[r], stack[r]>>
AfterRpn(r) == <<rpn[r], r_idx[r], stack[r]>>

HasIllegalCharacter(r) ==
    \E k \in DOMAIN req[r].expression : req[r].expression[k] = "#"

\* C10: every request ends, in exactly one outcome: a response tagged
\* matrix or scalar, or an error of one message with status 400.  The
\* stages run in the order build, tokenize, to_rpn, eval_rpn; the first
\* stage that fails ends the request, no later stage runs and no partial
\* result is returned; an expression with an illegal character is a lex
\* error even when it names an unknown matrix.
C10_OneOutcomeInOrder ==
    /\ [](\A r \in Reqs :
            /\ pc[r] = "done" <=> resp[r] # NoResp
            /\ pc[r] = "done" => OneOutcome(r)
            /\ StagesInOrder(r)
            /\ pc[r] = "done" /\ BuildOver(r) /\ HasIllegalCharacter(r) =>
                 resp[r] = HTTPException(400, <<"Unexpected character: ", "#">>))
    /\ [][\A r \in Reqs :
            /\ StageOf(pc'[r]) \in {StageOf(pc[r]), StageOf(pc[r]) + 1}
                   \/ pc'[r] = "done"
            /\ pc[r] = "done" => resp'[r] = resp[r] /\ pc'[r] = "done"
            /\ pc[r] # "done" /\ resp'[r].status = 400 =>
                 /\ pc'[r] = "done"
                 /\ pc[r] = "build" => AfterBuild(r)' = AfterBuild(r)
                 /\ pc[r] = "tokenize" => AfterLex(r)' = AfterLex(r)
                 /\ pc[r] = "to_rpn" => AfterRpn(r)' = AfterRpn(r)
         ]_vars
    /\ <>(\A r \in Reqs : pc[r] = "done")

\* A# with no matrix given has been refused for its "#".
C10_Witness ==
    \E r \in Reqs :
        /\ req[r].matrices = <<>>
        /\ req[r].expression = <<"A", "#">>
        /\ pc[r] = "done"
        /\ resp[r] = HTTPException(400, <<"Unexpected character: ", "#">>)
        /\ rpn[r] = <<>> /\ stack[r] = <<>>

-----------------------------------------------------------------------------
(* Claims about requests handled at once                                   *)

\* all that one request owns
Owned(r) ==
    <<req[r], pc[r], m_idx[r], matrices_map[r], i[r], raw_tokens[r],
      tokens[r], t_idx[r], out[r], ops[r], rpn[r], r_idx[r], stack[r],
      resp[r]>>

\* C11: with the steps of two requests interleaved in any order, each
\* request ends in an outcome it has when run alone, with the bindings,
\* tokens and postfix list it has alone; a step changes what one request
\* owns and nothing of the other.
C11_RequestsIsolated ==
    /\ [](\A r \in Reqs :
            /\ pc[r] = "done" => resp[r] \in RunAlone(req[r])
            /\ pc[r] \in {"tokenize", "to_rpn", "eval_rpn"} =>
                 matrices_map[r] = BuildAll(req[r].matrices, 1, NoBindings).map
            /\ pc[r] \in {"to_rpn", "eval_rpn"} =>
                 tokens[r] = ScanAll(req[r].expression, 1, <<>>).tokens
            /\ pc[r] = "eval_rpn" =>
                 rpn[r] = RpnAll(tokens[r], 1, <<>>, <<>>).rpn)
    /\ [][\A r, o \in Reqs :
            r # o /\ Owned(r)' # Owned(r) => Owned(o)' = Owned(o)]_vars

\* Both requests have ended; the first bound A to a 1x1 and the second to
\* a 1x2 matrix, and each has its own A as its result.
C11_Witness ==
    /\ Len(pc) = 2
    /\ req[1].matrices = <<MatrixPayload(<<"A">>, Grid1x1)>>
    /\ req[2].matrices = <<MatrixPayload(<<"a">>, Grid1x2)>>
    /\ req[1].expression = <<"A">> /\ req[2].expression = <<"A">>
    /\ pc[1] = "done" /\ pc[2] = "done"
    /\ resp[1].status = 200 /\ resp[2].status = 200
    /\ resp[1] # resp[2]

-----------------------------------------------------------------------------
(* Claims about transposition and the shape of a matrix                    *)

Built(r) == build_symbolic_matrix(req[r].matrices[1].data)

\* C12: for every bound matrix A, T(T(A)) gives a result of kind matrix
\* with the shape of A and, cell by cell, the rendering the expression A
\* gives.
C12_TransposeTwice ==
    \A r \in Reqs :
        pc[r] = "done" /\ req[r].expression = ExprTTA
          /\ Built(r).err = NoError =>
            /\ resp[r].status = 200 /\ resp[r].kind = "matrix"
            /\ Len(resp[r].value) = Built(r).m.rows
            /\ \A k \in 1..Len(resp[r].value) :
                 Len(resp[r].value[k]) = Built(r).m.cols
            /\ RunAlone(EvalRequest(req[r].matrices, ExprA,
                                    req[r].simplify_result)) = {resp[r]}

\* T(T(A)) of a 2x1 matrix has been rendered as 2 rows of 1 cell.
C12_Witness ==
    \E r \in Reqs :
        /\ req[r].expression = ExprTTA
        /\ req[r].matrices[1].data = << <<<<"x">>>>, <<<<" ">>>> >>
        /\ pc[r] = "done"
        /\ resp[r].kind = "matrix"
        /\ Len(resp[r].value) = 2 /\ Len(resp[r].value[1]) = 1
        /\ resp[r].value[1] # resp[r].value[2]


\* the build of the one matrix of the request is over
BuildStepOver(r) == pc[r] # "build" \/ m_idx[r] > 1

FirstRowLen(data) == IF data = <<>> THEN 0 ELSE Len(data[1])
HasShortRow(data) == \E k \in 1..Len(data) : Len(data[k]) < FirstRowLen(data)
HasLongRow(data) == \E k \in 1..Len(data) : Len(data[k]) > FirstRowLen(data)

\* C15: a built matrix has rows = len(grid) and cols = len(grid[0]), 0 for
\* a grid of no rows, and exactly cols cells in every row, whatever rows
\* and cols the request declares; its cells are the first cols cells of
\* each row of the grid, the cells beyond them being dropped without
\* error; a grid with a row shorter than its first row makes the build and
\* the request fail.
C15_BuiltShape ==
    \A r \in Reqs :
        LET data == req[r].matrices[1].data IN
        BuildStepOver(r) =>
            IF HasShortRow(data)
            THEN /\ pc[r] = "done"
                 /\ resp[r] = HTTPException(400, <<"list index out of range">>)
                 /\ matrices_map[r] = NoBindings
            ELSE /\ DOMAIN matrices_map[r] = {<<"A">>}
                 /\ LET m == matrices_map[r][<<"A">>] IN
                    /\ m.rows = Len(data)
                    /\ m.cols = FirstRowLen(data)
                    /\ DOMAIN m.cell = 1..m.rows
                    /\ \A k \in 1..m.rows :
                         /\ Len(m.cell[k]) = m.cols
                         /\ \A c \in 1..m.cols :
                              m.cell[k][c] =
                                  parse_expr(Text(CellText(data, k, c)))
                 /\ pc[r] = "done" => resp[r].status = 200

\* A grid whose second row is longer than its first, declared one row and
\* one column too large, has been built as a 2x1 matrix.
C15_Witness ==
    \E r \in Reqs :
        /\ req[r].matrices[1].data = << <<<<"x">>>>, <<<<"x">>, <<" ">>>> >>
        /\ req[r].matrices[1].rows = 3 /\ req[r].matrices[1].cols = 2
        /\ HasLongRow(req[r].matrices[1].data)
        /\ pc[r] = "tokenize"
        /\ matrices_map[r][<<"A">>].rows = 2
        /\ matrices_map[r][<<"A">>].cols = 1

-----------------------------------------------------------------------------
(* Claims about keyword calls                                              *)

\* the "(" that the ")" at position j closes, 0 if there is none
MatchingOpen(toks, j) ==
    LET opens == {p \in 1..(j - 1) :
                     /\ toks[p].type = "("
                     /\ Depth(toks, p - 1) = Depth(toks, j)
                     /\ \A k \in p..(j - 1) : Depth(toks, k) > Depth(toks, j)}
    IN  IF opens = {} THEN 0 ELSE CHOOSE p \in opens : TRUE

IsKeyword(t) == t.type = "WORD" /\ t.value \in funcs

\* to_rpn is at the ")" that ends a keyword call
AtCallEnd(r) ==
    /\ pc[r] = "to_rpn"
    /\ t_idx[r] <= Len(tokens[r])
    /\ tokens[r][t_idx[r]].type = ")"
    /\ MatchingOpen(tokens[r], t_idx[r]) > 1
    /\ IsKeyword(tokens[r][MatchingOpen(tokens[r], t_idx[r]) - 1])

IsPrefix(a, b) == Len(a) <= Len(b) /\ SubSeq(b, 1, Len(a)) = a

\* C13: for every keyword call FUNC ( e ) of a token sequence, the step
\* that processes the matching ")" leaves the output ending in the postfix
\* of e and then the FUNC item, and the output only grows afterwards, so
\* the FUNC item stands before every operator that follows the ")".
\* T(A)*B gives A, T, B, *.
C13_CallEmittedAtClose ==
    /\ [][\A r \in Reqs :
            /\ AtCallEnd(r) =>
                 LET j == t_idx[r]
                     p == MatchingOpen(tokens[r], j)
                     e == SubSeq(tokens[r], p + 1, j - 1)
                     pe == RpnAll(e, 1, <<>>, <<>>).rpn
                     n == Len(out'[r])
                 IN  /\ pc'[r] = "to_rpn"
                     /\ n >= Len(pe) + 1
                     /\ SubSeq(out'[r], n - Len(pe), n)
                            = pe \o <<Tok("FUNC", tokens[r][p - 1].value)>>
            /\ pc[r] = "to_rpn" /\ pc'[r] # "done" => IsPrefix(out[r], out'[r])
         ]_vars
    /\ [](\A r \in Reqs :
            pc[r] = "eval_rpn"
              /\ tokens[r] = <<WordT, LParen, WordA, RParen, OpTok("*"), WordB>>
              => rpn[r] = <<Tok("VAR", <<"A">>), Tok("FUNC", <<"T">>),
                            Tok("VAR", <<"B">>), Tok("*", <<"*">>)>>)

\* T(A)*B has been converted to A, T, B, *.
C13_Witness ==
    \E r \in Reqs :
        /\ tokens[r] = <<WordT, LParen, WordA, RParen, OpTok("*"), WordB>>
        /\ pc[r] = "eval_rpn"
        /\ rpn[r] = <<Tok("VAR", <<"A">>), Tok("FUNC", <<"T">>),
                      Tok("VAR", <<"B">>), Tok("*", <<"*">>)>>

-----------------------------------------------------------------------------
(* Claims about the output of to_rpn                                       *)

ItemTypes == {"VAR", "NUMBER", "FUNC"} \cup DOMAIN prec

IsParen(t) == t.type \in {"(", ")"}

\* the item a token other than a parenthesis becomes
ItemOf(t) ==
    IF t.type = "WORD"
    THEN Tok(IF t.value \in funcs THEN "FUNC" ELSE "VAR", t.value)
    ELSE t

Count(seq, x) == Cardinality({k \in DOMAIN seq : seq[k] = x})

\* the VAR and NUMBER items of a postfix list, in order
Operands(items) ==
    LET IsOperandItem(t) == t.type \in {"VAR", "NUMBER"}
    IN  SelectSeq(items, IsOperandItem)

\* the items of the operand tokens of a token sequence, in order
OperandTokens(toks) ==
    LET kept == SelectSeq(toks, IsOperand)
    IN  [k \in 1..Len(kept) |-> ItemOf(kept[k])]

\* C14: whenever to_rpn returns, its output holds only VAR, NUMBER, FUNC
\* and + - * / items and no parenthesis, one item for each input token
\* that is not a parenthesis, and its VAR and NUMBER items are the WORD and
\* NUMBER operand tokens of the input in the same order.
C14_OutputItems ==
    \A r \in Reqs :
        pc[r] = "eval_rpn" =>
            LET toks == tokens[r]
                kept == {k \in DOMAIN toks : ~IsParen(toks[k])}
            IN  /\ \A k \in DOMAIN rpn[r] : rpn[r][k].type \in ItemTypes
                /\ Len(rpn[r]) = Cardinality(kept)
                /\ \A k \in kept :
                     Count(rpn[r], ItemOf(toks[k])) = Count(toks, toks[k])
                /\ Operands(rpn[r]) = OperandTokens(toks)

\* T(A) has been converted to A, T.
C14_Witness ==
    \E r \in Reqs :
        /\ tokens[r] = <<WordT, LParen, WordA, RParen>>
        /\ pc[r] = "eval_rpn"
        /\ rpn[r] = <<Tok("VAR", <<"A">>), Tok("FUNC", <<"T">>)>>

-----------------------------------------------------------------------------
(* Claims about a name written before a parenthesis                        *)

NameX(r) == upper(req[r].matrices[1].name)
NameY(r) == upper(req[r].matrices[2].name)

\* C16: for bound names X and Y that are no keywords, X(Y) is rejected:
\* tokenize puts nothing between X and "(", to_rpn gives VAR X, VAR Y and
\* no operator, the evaluation ends with the two matrices on the stack and
\* fails with "Invalid expression format..."; no request ends in a result.
C16_NameBeforeParenRejected ==
    \A r \in Reqs :
        /\ pc[r] \in {"to_rpn", "eval_rpn", "done"} =>
             tokens[r] = <<Tok("WORD", NameX(r)), LParen,
                           Tok("WORD", NameY(r)), RParen>>
        /\ pc[r] \in {"eval_rpn", "done"} =>
             rpn[r] = <<Tok("VAR", NameX(r)), Tok("VAR", NameY(r))>>
        /\ pc[r] = "done" =>
             /\ resp[r] = HTTPException(400, InvalidFormat)
             /\ stack[r] = <<Val("matrix", matrices_map[r][NameX(r)]),
                             Val("matrix", matrices_map[r][NameY(r)])>>

\* A(b), with A a 1x1 and b a 1x2 matrix, has been refused.
C16_Witness ==
    \E r \in Reqs :
        /\ req[r].expression = <<"A", "(", "b", ")">>
        /\ req[r].matrices[1].data = Grid1x1
        /\ req[r].matrices[2].data = Grid1x2
        /\ pc[r] = "done"
        /\ Len(stack[r]) = 2
        /\ resp[r] = HTTPException(400, InvalidFormat)

-----------------------------------------------------------------------------
(* Claims about what to_rpn accepts                                        *)

Balanced(toks) == Unmatched(toks) = {} /\ Depth(toks, Len(toks)) = 0

DeadErrors ==
    {<<"Unknown token">>, <<"Invalid token type">>, <<"Unsupported function">>}

APlusB == <<Tok("VAR", <<"A">>), Tok("VAR", <<"B">>), Tok("+", <<"+">>)>>

\* C17: on the tokens tokenize gives, to_rpn fails only for unbalanced
\* parentheses, with "Mismatched parentheses", and converts every balanced
\* sequence however its operands and operators are arranged: "A b +" and
\* "+ A b" give the postfix of "A + b".  No request ends with "Unknown
\* token", "Invalid token type" or "Unsupported function".
C17_OnlyParenthesesRejected ==
    /\ [][\A r \in Reqs :
            pc[r] = "to_rpn" =>
                IF Balanced(tokens[r])
                THEN pc'[r] # "done"
                ELSE pc'[r] = "done" => resp'[r] = Mismatched]_vars
    /\ [](\A r \in Reqs :
            /\ resp[r].detail \notin DeadErrors
            /\ pc[r] = "eval_rpn" => Balanced(tokens[r])
            /\ pc[r] = "eval_rpn"
                 /\ tokens[r] \in {<<WordA, WordB, OpTok("+")>>,
                                   <<OpTok("+"), WordA, WordB>>,
                                   <<WordA, OpTok("+"), WordB>>}
                 => rpn[r] = APlusB)

\* "+A b" has been converted to A, B, + .
C17_Witness ==
    \E r \in Reqs :
        /\ req[r].expression = <<"+", "A", " ", "b">>
        /\ tokens[r] = <<OpTok("+"), WordA, WordB>>
        /\ pc[r] = "eval_rpn"
        /\ rpn[r] = APlusB

-----------------------------------------------------------------------------
(* Claims about FUNC markers on the operator stack                         *)

\* the FUNC markers of a stack or of an output, in order
Markers(seq) ==
    LET IsMarker(t) == t.type = "FUNC" IN SelectSeq(seq, IsMarker)

AtBinOp(r) ==
    /\ pc[r] = "to_rpn"
    /\ t_idx[r] <= Len(tokens[r])
    /\ IsBinOp(tokens[r][t_idx[r]].type)

ABTimesT ==
    <<Tok("VAR", <<"A">>), Tok("VAR", <<"B">>), Tok("*", <<"*">>),
      Tok("FUNC", <<"T">>)>>

\* C18: the step of to_rpn on a binary operator pops no FUNC marker; a
\* FUNC marker leaves the operator stack only in the step on a ")" or in
\* the final drain.  So a keyword with no "(" after it applies to all
\* that follows up to the enclosing ")" or the end: T A * B gives
\* A, B, *, T and not A, T, B, *.
C18_FuncStaysUnderOperators ==
    /\ [][\A r \in Reqs :
            /\ AtBinOp(r) =>
                 /\ Markers(ops'[r]) = Markers(ops[r])
                 /\ Markers(out'[r]) = Markers(out[r])
            /\ pc[r] = "to_rpn" /\ pc'[r] # "done"
                 /\ Len(Markers(ops'[r])) < Len(Markers(ops[r])) =>
                   \/ t_idx[r] > Len(tokens[r])
                   \/ tokens[r][t_idx[r]].type = ")"
         ]_vars
    /\ [](\A r \in Reqs :
            pc[r] = "eval_rpn" =>
              /\ tokens[r] = <<WordT, WordA, OpTok("*"), WordB>> =>
                   rpn[r] = ABTimesT
              /\ tokens[r] = <<LParen, WordT, WordA, OpTok("*"), WordB, RParen>>
                   => rpn[r] = ABTimesT)

\* T A * B has been converted to A, B, *, T.
C18_Witness ==
    \E r \in Reqs :
        /\ tokens[r] = <<WordT, WordA, OpTok("*"), WordB>>
        /\ pc[r] = "eval_rpn"
        /\ rpn[r] = ABTimesT

-----------------------------------------------------------------------------
(* Claims about a matrix named as a keyword                                *)

Keywords ==
    {<<"T">>, <<"I", "N", "V">>, <<"D", "E", "T">>, <<"T", "R", "A", "C", "E">>,
     <<"R", "A", "N", "K">>, <<"R", "R", "E", "F">>}

\* the matrix the first entry of the request binds, under a keyword
Shadowed(r) == build_symbolic_matrix(req[r].matrices[1].data).m

\* C19: a matrix bound under a name that uppercases to a keyword is read
\* by no expression: every word that uppercases to a keyword becomes a
\* FUNC item and never a VAR item, no step looks the keyword up in the
\* bindings, and the matrix is never on the value stack; with a matrix
\* named T bound, the expression T fails.
C19_KeywordShadowsMatrix ==
    /\ [](\A r \in Reqs :
            /\ upper(req[r].matrices[1].name) \in Keywords
            /\ pc[r] # "build" =>
                 matrices_map[r][upper(req[r].matrices[1].name)] = Shadowed(r)
            /\ \A k \in DOMAIN tokens[r] :
                 tokens[r][k].type = "WORD" /\ tokens[r][k].value \in Keywords
                   => /\ pc[r] = "eval_rpn" =>
                           Count(rpn[r], Tok("FUNC", tokens[r][k].value))
                               = Count(tokens[r], tokens[r][k])
                      /\ Count(out[r], Tok("VAR", tokens[r][k].value)) = 0
                      /\ Count(rpn[r], Tok("VAR", tokens[r][k].value)) = 0
            /\ \A k \in DOMAIN stack[r] :
                 stack[r][k] # Val("matrix", Shadowed(r))
            /\ pc[r] = "done" /\ strip(req[r].expression) \in {<<"T">>, <<"t">>}
                 => resp[r].status = 400)
    /\ [][\A r \in Reqs :
            AtVariable(r) => rpn[r][r_idx[r]].value \notin Keywords]_vars

\* With a matrix named t bound, the expression T has failed.
C19_Witness ==
    \E r \in Reqs :
        /\ req[r].matrices[1].name = <<"t">>
        /\ req[r].expression = <<"T">>
        /\ rpn[r] = <<Tok("FUNC", <<"T">>)>>
        /\ pc[r] = "done"
        /\ resp[r].status = 400

====
